---- MODULE Spec2Model ----
(***************************************************************************)
(* A model of @velony/domain: AggregateRoot's pending-event buffer         *)
(* (pushDomainEvent / pullDomainEvents), Entity and PrimitiveValueObject   *)
(* equality, and the StoragePath value object.                             *)
(*                                                                         *)
(* JavaScript arrays are reference values, so the buffers live in a heap:  *)
(* heap[r] is the content of the array with reference r, and a field that  *)
(* holds an array holds its reference.                                     *)
(***************************************************************************)
EXTENDS Integers, Sequences, FiniteSets, TLC

VARIABLES
    heap,          \* Seq of arrays: heap[r] is the content of array r
    domainEvents,  \* AggregateRoot._domainEvents, per aggregate: a reference
    pushed,        \* history: the events pushed to each aggregate, in call order
    returned,      \* history: the content of each batch pullDomainEvents returned, at return
    marks,         \* history: Len(pushed[a]) at each pull of a
    before,        \* history: the buffer content just before the last call on a
    lastOp,        \* history: the last call on each aggregate
    prevOp,        \* history: the call before the last one
    nops,          \* number of calls made so far
    batchRefs,     \* per aggregate: the references of the arrays pullDomainEvents returned
    aggId,         \* Entity._id of each aggregate, set by its constructor
    callerView,    \* history: each returned array's content at return, with the caller's own changes
    pc,            \* per execution path: where it is in pullDomainEvents
    events,        \* per execution path: the local `events` of its pullDomainEvents call
    lock,          \* the path inside a call on the shared aggregate, or "free"
    eqArgs,        \* the two objects an equals / toString call is made on
    eqRes,         \* the call made on eqArgs and what it returned
    spRaw,         \* the argument of the last StoragePath.create call
    spInst,        \* the StoragePath instance that call produced: a set of 0 or 1 instances
    spErr,         \* the message of the Error that call threw, or "none"
    spCall,        \* the last operation called on the instance and what it returned
    evLog,         \* the DomainEvents constructed so far, in construction order
    evCalls,       \* the number of DomainEvent constructor calls made
    uuidLast       \* the state of the identifier source: the last identifier issued

aggVars == <<heap, domainEvents, pushed, returned, marks, before, lastOp, prevOp, nops,
             batchRefs, callerView, aggId>>

concVars == <<pc, events, lock>>

eqVars == <<eqArgs, eqRes>>

pathVars == <<spRaw, spInst, spErr, spCall>>

eventVars == <<evLog, evCalls, uuidLast>>

vars == <<aggVars, concVars, eqVars, pathVars, eventVars>>

\* ------------------------------------------------------------------ bounds

MaxOps == 5

\* The aggregate instances, in construction order.
AggOrder == <<"a1", "a2">>

Aggs == {AggOrder[i] : i \in DOMAIN AggOrder}

Events == {"e1", "e2"}

\* The execution paths that reach the shared aggregate.
Paths == {"p1", "p2"}

\* The aggregate instance the paths share.
Shared == "a1"

\* -------------------------------------------------------------------- values

\* A string is a sequence of one-character strings. A primitive carries its
\* type: `s` is read for a string, `n` and `nan` for a number, `b` for a boolean.
Str(s) == [t |-> "string", s |-> s, n |-> 0, nan |-> FALSE, b |-> FALSE]

Num(n) == [t |-> "number", s |-> <<>>, n |-> n, nan |-> FALSE, b |-> FALSE]

NaN == [t |-> "number", s |-> <<>>, n |-> 0, nan |-> TRUE, b |-> FALSE]

Bool(b) == [t |-> "boolean", s |-> <<>>, n |-> 0, nan |-> FALSE, b |-> b]

\* A value object is its wrapped value: `protected readonly _value`.
ValueObject(value) == [value |-> value]

\* The identifiers the aggregates are constructed with.
AggregateIds == {ValueObject(Str(<<"u", "1">>)), ValueObject(Str(<<"u", "2">>))}

\* ------------------------------------------------------------- AggregateRoot

\* A pull that copies the buffer without its last element.
SnapshotEvents_dropLast(h, buf) ==
    [heap |-> Append(h, IF h[buf] = <<>> THEN <<>> ELSE SubSeq(h[buf], 1, Len(h[buf]) - 1)),
     events |-> Len(h) + 1]

\* `const events = [...this._domainEvents]`: a new array with the same elements.
SnapshotEvents(h, buf) ==
    [heap |-> Append(h, h[buf]), events |-> Len(h) + 1]

\* A pull that forgets to reset the buffer.
ResetDomainEvents_keep(h, buf) ==
    [heap |-> h, domainEvents |-> buf]

\* `this._domainEvents = []`: the field is given a new empty array.
ResetDomainEvents(h, buf) ==
    [heap |-> Append(h, <<>>), domainEvents |-> Len(h) + 1]

\* A push that replaces the buffer's content by the new event.
pushDomainEvent_replace(h, buf, event) ==
    [heap |-> [h EXCEPT ![buf] = <<event>>], domainEvents |-> buf]

\* A push into one buffer shared by every instance: the first array allocated.
pushDomainEvent_sharedBuffer(h, buf, event) ==
    [heap |-> [h EXCEPT ![1] = Append(@, event)], domainEvents |-> buf]

\* A push that skips an event the buffer already holds.
pushDomainEvent_dedup(h, buf, event) ==
    [heap |-> IF \E i \in 1..Len(h[buf]) : h[buf][i] = event
              THEN h
              ELSE [h EXCEPT ![buf] = Append(@, event)],
     domainEvents |-> buf]

\* `this._domainEvents.push(event)`: the array the field holds grows in place.
pushDomainEvent(h, buf, event) ==
    [heap |-> [h EXCEPT ![buf] = Append(@, event)], domainEvents |-> buf]

\* A pull that returns the buffer array itself and leaves it in place.
pullDomainEvents_returnLive(h, buf) ==
    [heap |-> h, domainEvents |-> buf, ret |-> buf]

\* pullDomainEvents(): snapshot, reset, return the snapshot.
pullDomainEvents(h, buf) ==
    LET s == SnapshotEvents(h, buf)
        r == ResetDomainEvents(s.heap, buf)
    IN [heap |-> r.heap, domainEvents |-> r.domainEvents, ret |-> s.events]

\* The content of a's pending buffer.
Pending(a) == heap[domainEvents[a]]

InitAgg ==
    /\ heap = [i \in DOMAIN AggOrder |-> <<>>]
    /\ domainEvents = [a \in Aggs |-> CHOOSE i \in DOMAIN AggOrder : AggOrder[i] = a]
    /\ pushed = [a \in Aggs |-> <<>>]
    /\ returned = [a \in Aggs |-> <<>>]
    /\ marks = [a \in Aggs |-> <<>>]
    /\ before = [a \in Aggs |-> <<>>]
    /\ lastOp = [a \in Aggs |-> "new"]
    /\ prevOp = [a \in Aggs |-> "new"]
    /\ nops = 0
    /\ batchRefs = [a \in Aggs |-> <<>>]
    /\ callerView = [a \in Aggs |-> <<>>]

Push(a, e) ==
    /\ nops < MaxOps
    /\ LET r == pushDomainEvent(heap, domainEvents[a], e)
       IN /\ heap' = r.heap
          /\ domainEvents' = [domainEvents EXCEPT ![a] = r.domainEvents]
    /\ pushed' = [pushed EXCEPT ![a] = Append(@, e)]
    /\ before' = [before EXCEPT ![a] = Pending(a)]
    /\ prevOp' = [prevOp EXCEPT ![a] = lastOp[a]]
    /\ lastOp' = [lastOp EXCEPT ![a] = "push"]
    /\ nops' = nops + 1
    /\ UNCHANGED <<returned, marks, batchRefs, callerView, aggId>>

Pull(a) ==
    /\ nops < MaxOps
    /\ LET r == pullDomainEvents(heap, domainEvents[a])
       IN /\ heap' = r.heap
          /\ domainEvents' = [domainEvents EXCEPT ![a] = r.domainEvents]
          /\ returned' = [returned EXCEPT ![a] = Append(@, r.heap[r.ret])]
          /\ batchRefs' = [batchRefs EXCEPT ![a] = Append(@, r.ret)]
          /\ callerView' = [callerView EXCEPT ![a] = Append(@, r.heap[r.ret])]
    /\ marks' = [marks EXCEPT ![a] = Append(@, Len(pushed[a]))]
    /\ before' = [before EXCEPT ![a] = Pending(a)]
    /\ prevOp' = [prevOp EXCEPT ![a] = lastOp[a]]
    /\ lastOp' = [lastOp EXCEPT ![a] = "pull"]
    /\ nops' = nops + 1
    /\ UNCHANGED <<pushed, aggId>>

\* The caller of pullDomainEvents appends an event to the k-th array that a
\* returned to it: `batch.push(e)`.
CallerPush(a, k, e) ==
    /\ nops < MaxOps
    /\ k \in 1..Len(batchRefs[a])
    /\ heap' = [heap EXCEPT ![batchRefs[a][k]] = Append(@, e)]
    /\ callerView' = [callerView EXCEPT ![a][k] = Append(@, e)]
    /\ nops' = nops + 1
    /\ UNCHANGED <<domainEvents, pushed, returned, marks, before, lastOp, prevOp, batchRefs,
                   aggId>>

\* The caller empties the k-th array that a returned to it: `batch.length = 0`.
CallerClear(a, k) ==
    /\ nops < MaxOps
    /\ k \in 1..Len(batchRefs[a])
    /\ callerView[a][k] # <<>>
    /\ heap' = [heap EXCEPT ![batchRefs[a][k]] = <<>>]
    /\ callerView' = [callerView EXCEPT ![a][k] = <<>>]
    /\ nops' = nops + 1
    /\ UNCHANGED <<domainEvents, pushed, returned, marks, before, lastOp, prevOp, batchRefs,
                   aggId>>

\* The paths are idle: the state of the path variables when no path runs.
IdleConc ==
    /\ pc = [p \in Paths |-> "idle"]
    /\ events = [p \in Paths |-> 0]
    /\ lock = "free"

\* No equals / toString call is being checked.
IdleEq ==
    /\ eqArgs = [kind |-> "none"]
    /\ eqRes = [op |-> "none"]

\* No StoragePath has been created.
IdlePath ==
    /\ spRaw = <<>>
    /\ spInst = {}
    /\ spErr = "none"
    /\ spCall = [op |-> "none"]

\* No DomainEvent has been constructed.
IdleEvent ==
    /\ evLog = <<>>
    /\ evCalls = 0
    /\ uuidLast = 0

\* Every aggregate was constructed with the same identifier.
SameIds == aggId = [a \in Aggs |-> ValueObject(Str(<<"u", "1">>))]

\* Each aggregate was constructed with an identifier of its own choice:
\* `protected constructor(id) { this._id = id }`.
AnyIds == aggId \in [Aggs -> AggregateIds]

Init == InitAgg /\ SameIds /\ IdleConc /\ IdleEq /\ IdlePath /\ IdleEvent

\* The aggregates as constructed, with any identifiers, and nothing else running.
InitAggregates == InitAgg /\ AnyIds /\ IdleConc /\ IdleEq /\ IdlePath /\ IdleEvent

Next ==
    \/ \E a \in Aggs, e \in Events : Push(a, e) /\ UNCHANGED <<concVars, eqVars, pathVars, eventVars>>
    \/ \E a \in Aggs : Pull(a) /\ UNCHANGED <<concVars, eqVars, pathVars, eventVars>>
    \/ \E a \in Aggs, k \in 1..MaxOps, e \in Events :
            CallerPush(a, k, e) /\ UNCHANGED <<concVars, eqVars, pathVars, eventVars>>
    \/ \E a \in Aggs, k \in 1..MaxOps :
            CallerClear(a, k) /\ UNCHANGED <<concVars, eqVars, pathVars, eventVars>>

Spec == InitAggregates /\ [][Next]_vars

\* ---------------------------------------------------------------- sequences

RECURSIVE Flatten(_)
Flatten(ss) == IF ss = <<>> THEN <<>> ELSE Head(ss) \o Flatten(Tail(ss))

Last(s) == s[Len(s)]

\* Len(pushed[a]) at the k-th pull of a; 0 before the first.
Mark(a, k) == IF k = 0 THEN 0 ELSE marks[a][k]

\* ---------------------------------------------------------------------- C1

\* C1: for any sequence of pushDomainEvent and pullDomainEvents calls on an
\* aggregate, the k-th pull returns exactly the events pushed after the
\* (k-1)-th pull and before the k-th, in push order; so the concatenation of
\* all pull results is the sequence of events pushed before the last pull:
\* every pushed occurrence is returned once, by the first pull after its push.
C1_ExactlyOnceDrain ==
    \A a \in Aggs :
        /\ Len(marks[a]) = Len(returned[a])
        /\ \A k \in 1..Len(returned[a]) :
              returned[a][k] = SubSeq(pushed[a], Mark(a, k - 1) + 1, Mark(a, k))
        /\ Flatten(returned[a]) = SubSeq(pushed[a], 1, Mark(a, Len(marks[a])))
        /\ Flatten(returned[a]) \o Pending(a) = pushed[a]

\* Two non-empty batches were pulled from one aggregate and an event pushed
\* after the last pull is still pending.
C1_Witness ==
    \E a \in Aggs :
        /\ Len(returned[a]) = 2
        /\ returned[a][1] # <<>>
        /\ returned[a][2] # <<>>
        /\ Pending(a) # <<>>

\* ---------------------------------------------------------------------- C2

\* C2: pullDomainEvents returns exactly the buffer content of the moment of
\* the call, in insertion order, and leaves the buffer empty; a pull right
\* after a pull returns the empty sequence.
C2_PullReturnsBufferAndEmpties ==
    \A a \in Aggs :
        lastOp[a] = "pull" =>
            /\ Last(returned[a]) = before[a]
            /\ Pending(a) = <<>>
            /\ prevOp[a] = "pull" => Last(returned[a]) = <<>>

\* push(e1); push(e2); pull() returned <<e1, e2>>, and an immediate second
\* pull() returned <<>>.
C2_Witness ==
    \E a \in Aggs :
        /\ pushed[a] = <<"e1", "e2">>
        /\ returned[a] = << <<"e1", "e2">>, <<>> >>
        /\ lastOp[a] = "pull"
        /\ prevOp[a] = "pull"

\* ------------------------------------------------- concurrent execution paths

\* A call may be entered without waiting for the call in progress.
CanEnter_noCriticalSection(l, p) == TRUE

\* pullDomainEvents and pushDomainEvent are synchronous: a call on the
\* instance runs to completion before another path's call starts, so each
\* call is one critical section.
CanEnter(l, p) == l = "free"

\* Path p calls pushDomainEvent with an event object of its own.
CPush(p) ==
    /\ nops < MaxOps
    /\ pc[p] = "idle"
    /\ CanEnter(lock, p)
    /\ LET e == Len(pushed[Shared]) + 1
           r == pushDomainEvent(heap, domainEvents[Shared], e)
       IN /\ heap' = r.heap
          /\ domainEvents' = [domainEvents EXCEPT ![Shared] = r.domainEvents]
          /\ pushed' = [pushed EXCEPT ![Shared] = Append(@, e)]
    /\ nops' = nops + 1
    /\ UNCHANGED <<returned, marks, before, lastOp, prevOp, batchRefs, callerView, aggId,
                   concVars>>

\* Path p enters pullDomainEvents and takes the snapshot.
CPullSnapshot(p) ==
    /\ nops < MaxOps
    /\ pc[p] = "idle"
    /\ CanEnter(lock, p)
    /\ LET s == SnapshotEvents(heap, domainEvents[Shared])
       IN /\ heap' = s.heap
          /\ events' = [events EXCEPT ![p] = s.events]
    /\ lock' = p
    /\ pc' = [pc EXCEPT ![p] = "reset"]
    /\ nops' = nops + 1
    /\ UNCHANGED <<domainEvents, pushed, returned, marks, before, lastOp, prevOp,
                   batchRefs, callerView, aggId>>

\* Path p resets the buffer and returns its snapshot.
CPullReset(p) ==
    /\ pc[p] = "reset"
    /\ LET r == ResetDomainEvents(heap, domainEvents[Shared])
       IN /\ heap' = r.heap
          /\ domainEvents' = [domainEvents EXCEPT ![Shared] = r.domainEvents]
    /\ returned' = [returned EXCEPT ![Shared] = Append(@, heap[events[p]])]
    /\ lock' = IF lock = p THEN "free" ELSE lock
    /\ pc' = [pc EXCEPT ![p] = "idle"]
    /\ UNCHANGED <<events, pushed, marks, before, lastOp, prevOp, nops, batchRefs, callerView,
                   aggId>>

NextConc ==
    \/ \E p \in Paths : CPush(p) /\ UNCHANGED <<eqVars, pathVars, eventVars>>
    \/ \E p \in Paths : CPullSnapshot(p) /\ UNCHANGED <<eqVars, pathVars, eventVars>>
    \/ \E p \in Paths : CPullReset(p) /\ UNCHANGED <<eqVars, pathVars, eventVars>>

SpecConc == Init /\ [][NextConc]_vars

\* The number of positions of s that hold e.
Occurrences(s, e) == Cardinality({i \in 1..Len(s) : s[i] = e})

\* ---------------------------------------------------------------------- C3

\* C3: when several paths push to and pull from one aggregate and each call
\* is one critical section, then whenever no call is in progress every pushed
\* event is either still pending or in exactly one drained batch: none is
\* missing from all batches and none is in two batches.
C3_NoLossNoDuplicate ==
    lock = "free" /\ (\A p \in Paths : pc[p] = "idle") =>
        \A e \in 1..Len(pushed[Shared]) :
            Occurrences(Flatten(returned[Shared]), e) + Occurrences(Pending(Shared), e) = 1

\* Every path has drained a non-empty batch, no call is in progress and an
\* event pushed since is pending.
C3_Witness ==
    /\ lock = "free"
    /\ \A p \in Paths : pc[p] = "idle" /\ events[p] # 0 /\ heap[events[p]] # <<>>
    /\ Pending(Shared) # <<>>

\* ------------------------------------------------------ JavaScript primitives

\* The numbers wrapped are the integers -MaxNum..MaxNum and NaN.
MaxNum == 11

Digits == <<"0", "1", "2", "3", "4", "5", "6", "7", "8", "9">>

IsDigit(c) == \E d \in DOMAIN Digits : Digits[d] = c

DigitValue(c) == (CHOOSE d \in DOMAIN Digits : Digits[d] = c) - 1

\* Number::toString of a non-negative integer: its decimal digits.
RECURSIVE NatToString(_)
NatToString(n) ==
    IF n < 10 THEN <<Digits[n + 1]>> ELSE NatToString(n \div 10) \o <<Digits[(n % 10) + 1]>>

\* String(value): a string is itself, a boolean is "true" or "false", a
\* number is "NaN" or its decimal text.
String(v) ==
    CASE v.t = "string" -> v.s
      [] v.t = "boolean" -> IF v.b THEN <<"t", "r", "u", "e">> ELSE <<"f", "a", "l", "s", "e">>
      [] v.t = "number" ->
            IF v.nan THEN <<"N", "a", "N">>
            ELSE IF v.n < 0 THEN <<"-">> \o NatToString(-v.n)
            ELSE NatToString(v.n)

\* The value of a sequence of decimal digits.
RECURSIVE DigitsToNat(_)
DigitsToNat(s) ==
    IF s = <<>> THEN 0 ELSE 10 * DigitsToNat(SubSeq(s, 1, Len(s) - 1)) + DigitValue(s[Len(s)])

\* ToNumber of a string: "" is 0, decimal digits are their value, other text is NaN.
StringToNumber(s) ==
    IF \A i \in 1..Len(s) : IsDigit(s[i]) THEN Num(DigitsToNat(s)) ELSE NaN

\* ToNumber of a primitive, as the == operator applies it.
ToNumber(v) ==
    CASE v.t = "number" -> v
      [] v.t = "boolean" -> Num(IF v.b THEN 1 ELSE 0)
      [] v.t = "string" -> StringToNumber(v.s)

\* x == y: operands of different types are converted to numbers first.
LooseEquals(x, y) ==
    IF x.t = y.t
    THEN (IF x.t = "number" THEN ~x.nan /\ ~y.nan /\ x.n = y.n ELSE x = y)
    ELSE ~ToNumber(x).nan /\ ~ToNumber(y).nan /\ ToNumber(x).n = ToNumber(y).n

\* x === y: false for operands of different types; numbers by value with NaN
\* unequal to everything; strings by content; booleans by value.
StrictEquals(x, y) ==
    /\ x.t = y.t
    /\ CASE x.t = "number" -> ~x.nan /\ ~y.nan /\ x.n = y.n
         [] x.t = "string" -> x.s = y.s
         [] x.t = "boolean" -> x.b = y.b

\* -------------------------------------------- PrimitiveValueObject and Entity

\* An equals written with the coercing operator: `this._value == other._value`.
PrimitiveValueObject_equals_loose(this, other) == LooseEquals(this.value, other.value)

\* PrimitiveValueObject.equals: `this._value === other._value`.
PrimitiveValueObject_equals(this, other) == StrictEquals(this.value, other.value)

\* PrimitiveValueObject.toString: `String(this._value)`.
PrimitiveValueObject_toString(this) == String(this.value)

\* An entity of some subclass: its `_id` and one field of its own.
Entity(id, name) == [id |-> id, name |-> name]

\* An equals that compares every field of the two entities.
Entity_equals_allFields(this, other) ==
    PrimitiveValueObject_equals(this.id, other.id) /\ this.name = other.name

\* Entity.equals: `this._id.equals(other._id)`.
Entity_equals(this, other) == PrimitiveValueObject_equals(this.id, other.id)

\* The primitives the value objects of the model wrap.
StringValues == {<<>>, <<"0">>, <<"1">>, <<"u", "1">>, <<"u", "2">>, <<"t", "r", "u", "e">>}

Primitives ==
    {Str(s) : s \in StringValues} \cup {Num(n) : n \in -MaxNum..MaxNum}
        \cup {NaN} \cup {Bool(b) : b \in BOOLEAN}

\* Identifiers wrap a string or a number.
IdValues == {Str(<<"u", "1">>), Str(<<"u", "2">>), Str(<<"1">>), Num(1), Num(2), NaN}

Entities == {Entity(ValueObject(v), name) : v \in IdValues, name \in {"Ann", "Bob"}}

ValueObjects == {ValueObject(v) : v \in Primitives}

\* The objects of the call are drawn from the bounded sets.
DrawEqArgs ==
    /\ eqArgs \in [kind : {"entity"}, a : Entities, b : Entities]
                    \cup [kind : {"primitive"}, a : ValueObjects, b : ValueObjects]
    /\ eqRes = [op |-> "none"]

\* a.equals(b) on two entities.
CallEntityEquals ==
    /\ eqArgs.kind = "entity"
    /\ eqRes.op = "none"
    /\ eqRes' = [op |-> "Entity.equals", r |-> Entity_equals(eqArgs.a, eqArgs.b)]
    /\ UNCHANGED eqArgs

\* x.equals(y) on two primitive value objects.
CallEquals ==
    /\ eqArgs.kind = "primitive"
    /\ eqRes.op = "none"
    /\ eqRes' = [op |-> "equals", r |-> PrimitiveValueObject_equals(eqArgs.a, eqArgs.b)]
    /\ UNCHANGED eqArgs

\* x.toString() on a primitive value object.
CallToString ==
    /\ eqArgs.kind = "primitive"
    /\ eqRes.op = "none"
    /\ eqRes' = [op |-> "toString", r |-> PrimitiveValueObject_toString(eqArgs.a)]
    /\ UNCHANGED eqArgs

\* The five equals calls among x, y and a third primitive value object z:
\* x on itself, x and y both ways, y on z, x on z.
CallEqualsAmongThree ==
    /\ eqArgs.kind = "primitive"
    /\ eqRes.op = "none"
    /\ \E z \in ValueObjects :
          eqRes' = [op |-> "equals3", z |-> z,
                    xx |-> PrimitiveValueObject_equals(eqArgs.a, eqArgs.a),
                    xy |-> PrimitiveValueObject_equals(eqArgs.a, eqArgs.b),
                    yx |-> PrimitiveValueObject_equals(eqArgs.b, eqArgs.a),
                    yz |-> PrimitiveValueObject_equals(eqArgs.b, z),
                    xz |-> PrimitiveValueObject_equals(eqArgs.a, z)]
    /\ UNCHANGED eqArgs

\* The same five calls among the entities a, b and a third entity c.
CallEntityEqualsAmongThree ==
    /\ eqArgs.kind = "entity"
    /\ eqRes.op = "none"
    /\ \E c \in Entities :
          eqRes' = [op |-> "Entity.equals3", z |-> c,
                    xx |-> Entity_equals(eqArgs.a, eqArgs.a),
                    xy |-> Entity_equals(eqArgs.a, eqArgs.b),
                    yx |-> Entity_equals(eqArgs.b, eqArgs.a),
                    yz |-> Entity_equals(eqArgs.b, c),
                    xz |-> Entity_equals(eqArgs.a, c)]
    /\ UNCHANGED eqArgs

NextEq ==
    \/ CallEntityEquals /\ UNCHANGED <<aggVars, concVars, pathVars, eventVars>>
    \/ CallEquals /\ UNCHANGED <<aggVars, concVars, pathVars, eventVars>>
    \/ CallToString /\ UNCHANGED <<aggVars, concVars, pathVars, eventVars>>
    \/ CallEqualsAmongThree /\ UNCHANGED <<aggVars, concVars, pathVars, eventVars>>
    \/ CallEntityEqualsAmongThree /\ UNCHANGED <<aggVars, concVars, pathVars, eventVars>>

InitEq == InitAgg /\ SameIds /\ IdleConc /\ DrawEqArgs /\ IdlePath /\ IdleEvent

SpecEq == InitEq /\ [][NextEq]_vars

\* ---------------------------------------------------------------------- C4

\* C4: for all entities a and b, a.equals(b) is true exactly when
\* a.id.equals(b.id), that is when the two ids wrap primitives of the same
\* type and value (NaN aside), whatever the other fields hold.
C4_EntityEqualsIffIdEquals ==
    eqRes.op = "Entity.equals" =>
        LET x == eqArgs.a.id.value
            y == eqArgs.b.id.value
        IN /\ eqRes.r <=> PrimitiveValueObject_equals(eqArgs.a.id, eqArgs.b.id)
           /\ eqRes.r <=> (x.t = y.t /\ x.s = y.s /\ x.n = y.n /\ ~x.nan /\ ~y.nan)

\* Two entities with the same id and different other fields compared equal.
C4_Witness ==
    /\ eqRes.op = "Entity.equals"
    /\ eqArgs.a.id = eqArgs.b.id
    /\ eqArgs.a.name # eqArgs.b.name
    /\ eqRes.r = TRUE

\* Two entities with different ids and the same other fields compared unequal.
C4_WitnessDifferentIds ==
    /\ eqRes.op = "Entity.equals"
    /\ eqArgs.a.id.value = Str(<<"u", "1">>)
    /\ eqArgs.b.id.value = Str(<<"u", "2">>)
    /\ eqArgs.a.name = eqArgs.b.name
    /\ eqRes.r = FALSE

\* ---------------------------------------------------------------------- C5

\* The text is a canonical decimal numeral of n: an optional "-" for a
\* negative number only, then digits without a leading zero, whose value is |n|.
IsCanonicalNumeral(text, n) ==
    LET neg == text # <<>> /\ text[1] = "-"
        ds == IF neg THEN Tail(text) ELSE text
    IN /\ neg <=> n < 0
       /\ ds # <<>>
       /\ \A i \in 1..Len(ds) : IsDigit(ds[i])
       /\ Len(ds) > 1 => ds[1] # "0"
       /\ DigitsToNat(ds) = (IF n < 0 THEN -n ELSE n)

\* C5: for all primitive value objects x and y, x.equals(y) is true exactly
\* when the wrapped primitives have the same type and the same value (no
\* coercion between types; as under ===, NaN equals nothing), and
\* toString returns the canonical text of the wrapped primitive.
C5_StrictEqualsAndToString ==
    LET x == eqArgs.a.value
        y == eqArgs.b.value
    IN /\ eqRes.op = "equals" =>
            /\ x.t # y.t => eqRes.r = FALSE
            /\ x.t = y.t /\ x.t = "string" => (eqRes.r <=> x.s = y.s)
            /\ x.t = y.t /\ x.t = "boolean" => (eqRes.r <=> x.b = y.b)
            /\ x.t = y.t /\ x.t = "number" => (eqRes.r <=> (~x.nan /\ ~y.nan /\ x.n = y.n))
       /\ eqRes.op = "toString" =>
            /\ x.t = "string" => eqRes.r = x.s
            /\ x.t = "boolean" => eqRes.r = (IF x.b THEN <<"t", "r", "u", "e">>
                                                    ELSE <<"f", "a", "l", "s", "e">>)
            /\ x.t = "number" /\ x.nan => eqRes.r = <<"N", "a", "N">>
            /\ x.t = "number" /\ ~x.nan => IsCanonicalNumeral(eqRes.r, x.n)

\* The string "1" and the number 1 compared unequal.
C5_Witness ==
    /\ eqRes.op = "equals"
    /\ eqArgs.a.value = Str(<<"1">>)
    /\ eqArgs.b.value = Num(1)
    /\ eqRes.r = FALSE

\* toString of a negative two-digit number returned its numeral.
C5_WitnessToString ==
    /\ eqRes.op = "toString"
    /\ eqArgs.a.value = Num(-10)
    /\ eqRes.r = <<"-", "1", "0">>

\* ----------------------------------------------------------- String methods

\* s.startsWith(prefix)
startsWith(s, prefix) ==
    Len(s) >= Len(prefix) /\ SubSeq(s, 1, Len(prefix)) = prefix

\* s.includes(sub)
includes(s, sub) ==
    \E i \in 1..(Len(s) - Len(sub) + 1) : SubSeq(s, i, i + Len(sub) - 1) = sub

\* s.split(sep) for a one-character separator: the pieces between the
\* separators; a string without the separator is its own single piece.
RECURSIVE split(_, _)
split(s, sep) ==
    IF \A i \in 1..Len(s) : s[i] # sep
    THEN <<s>>
    ELSE LET i == CHOOSE k \in 1..Len(s) : s[k] = sep /\ \A j \in 1..(k - 1) : s[j] # sep
         IN <<SubSeq(s, 1, i - 1)>> \o split(SubSeq(s, i + 1, Len(s)), sep)

\* array.at(-1): a sequence holding the last element, empty for `undefined`.
atLast(array) == IF array = <<>> THEN <<>> ELSE <<array[Len(array)]>>

\* The lower-case form of one character.
LowerChar(c) ==
    CASE c = "A" -> "a"
      [] c = "B" -> "b"
      [] c = "T" -> "t"
      [] c = "X" -> "x"
      [] OTHER -> c

\* s.toLowerCase()
toLowerCase(s) == [i \in 1..Len(s) |-> LowerChar(s[i])]

\* s.replace(/\/$/, ''): the pattern matches one "/" at the end of s, and the
\* first match only is replaced.
replaceTrailingSlash(s) ==
    IF s # <<>> /\ s[Len(s)] = "/" THEN SubSeq(s, 1, Len(s) - 1) ELSE s

\* ---------------------------------------------------------------- StoragePath

ErrLeadingSlash == "Storage path should not start with /"

ErrDoubleSlash == "Storage path contains invalid double slashes"

ErrParentRef == "Storage path cannot contain .."

\* A create that checks the doubled separator before the leading one.
create_doubleSlashFirst(value) ==
    IF includes(value, <<"/", "/">>) THEN [inst |-> {}, err |-> ErrDoubleSlash]
    ELSE IF startsWith(value, <<"/">>) THEN [inst |-> {}, err |-> ErrLeadingSlash]
    ELSE IF includes(value, <<".", ".">>) THEN [inst |-> {}, err |-> ErrParentRef]
    ELSE [inst |-> {ValueObject(value)}, err |-> "none"]

\* A create without the parent-reference check.
create_noParentCheck(value) ==
    IF startsWith(value, <<"/">>) THEN [inst |-> {}, err |-> ErrLeadingSlash]
    ELSE IF includes(value, <<"/", "/">>) THEN [inst |-> {}, err |-> ErrDoubleSlash]
    ELSE [inst |-> {ValueObject(value)}, err |-> "none"]

\* A create that normalises the path: it stores it without a trailing separator.
create_trimTrailingSlash(value) ==
    IF startsWith(value, <<"/">>) THEN [inst |-> {}, err |-> ErrLeadingSlash]
    ELSE IF includes(value, <<"/", "/">>) THEN [inst |-> {}, err |-> ErrDoubleSlash]
    ELSE IF includes(value, <<".", ".">>) THEN [inst |-> {}, err |-> ErrParentRef]
    ELSE [inst |-> {ValueObject(replaceTrailingSlash(value))}, err |-> "none"]

\* A create that rejects a parent reference only where it is a whole segment.
create_parentSegmentOnly(value) ==
    IF startsWith(value, <<"/">>) THEN [inst |-> {}, err |-> ErrLeadingSlash]
    ELSE IF includes(value, <<"/", "/">>) THEN [inst |-> {}, err |-> ErrDoubleSlash]
    ELSE IF \E k \in 1..Len(split(value, "/")) : split(value, "/")[k] = <<".", ".">>
         THEN [inst |-> {}, err |-> ErrParentRef]
    ELSE [inst |-> {ValueObject(value)}, err |-> "none"]

\* StoragePath.create(value): the instance it returns, or the message of the
\* Error it throws; a throw leaves no instance.
create(value) ==
    IF startsWith(value, <<"/">>) THEN [inst |-> {}, err |-> ErrLeadingSlash]
    ELSE IF includes(value, <<"/", "/">>) THEN [inst |-> {}, err |-> ErrDoubleSlash]
    ELSE IF includes(value, <<".", ".">>) THEN [inst |-> {}, err |-> ErrParentRef]
    ELSE [inst |-> {ValueObject(value)}, err |-> "none"]

\* toUrl(baseUrl): `${baseUrl.replace(/\/$/, '')}/${this._value}`
toUrl(this, baseUrl) == replaceTrailingSlash(baseUrl) \o <<"/">> \o this.value

\* get extension(): `parts.at(-1)?.toLowerCase() ?? ''` of `this._value.split('.')`
extension(this) ==
    LET parts == split(this.value, ".")
        last == atLast(parts)
    IN IF last = <<>> THEN <<>> ELSE toLowerCase(last[1])

\* The raw paths and base URLs tried: every string over the alphabet up to
\* the length bound.
MaxPathLen == 4

MaxBaseLen == 3

PathChars == {"/", ".", "a", "B"}

BaseChars == {"h", "/"}

StringsUpTo(chars, n) == UNION {[1..k -> chars] : k \in 0..n}

RawPaths == StringsUpTo(PathChars, MaxPathLen)

BaseUrls == StringsUpTo(BaseChars, MaxBaseLen)

\* StoragePath.create(raw), called while no instance has been produced yet:
\* as the first call, or again after a call that threw.
Create(raw) ==
    /\ spInst = {}
    /\ spRaw' = raw
    /\ spInst' = create(raw).inst
    /\ spErr' = create(raw).err
    /\ spCall' = [op |-> "create"]

\* p.extension on the instance
GetExtension ==
    /\ \E p \in spInst : spCall' = [op |-> "extension", r |-> extension(p)]
    /\ UNCHANGED <<spRaw, spInst, spErr>>

\* p.toUrl(base) on the instance
ToUrl(base) ==
    /\ \E p \in spInst : spCall' = [op |-> "toUrl", base |-> base, r |-> toUrl(p, base)]
    /\ UNCHANGED <<spRaw, spInst, spErr>>

\* StoragePath extends PrimitiveValueObject<string>: the instance as the
\* inherited equals and toString see it, its `_value` a string primitive.
AsPrimitive(p) == ValueObject(Str(p.value))

\* The paths an instance is compared with: its own raw string and the
\* strings of at most one character.
OtherPaths(raw) == {raw} \cup StringsUpTo(PathChars, 1)

\* p.toString() on the instance
PathToString ==
    /\ \E p \in spInst :
          spCall' = [op |-> "toString", r |-> PrimitiveValueObject_toString(AsPrimitive(p))]
    /\ UNCHANGED <<spRaw, spInst, spErr>>

\* p.equals(q) on the instance, q another instance made by create(other)
PathEquals(other) ==
    /\ \E p \in spInst, q \in create(other).inst :
          spCall' = [op |-> "equals", other |-> q.value,
                     r |-> PrimitiveValueObject_equals(AsPrimitive(p), AsPrimitive(q))]
    /\ UNCHANGED <<spRaw, spInst, spErr>>

NextPath ==
    \/ \E raw \in RawPaths : Create(raw) /\ UNCHANGED <<aggVars, concVars, eqVars, eventVars>>
    \/ GetExtension /\ UNCHANGED <<aggVars, concVars, eqVars, eventVars>>
    \/ \E base \in BaseUrls : ToUrl(base) /\ UNCHANGED <<aggVars, concVars, eqVars, eventVars>>
    \/ PathToString /\ UNCHANGED <<aggVars, concVars, eqVars, eventVars>>
    \/ \E other \in OtherPaths(spRaw) : PathEquals(other)
            /\ UNCHANGED <<aggVars, concVars, eqVars, eventVars>>

SpecPath == Init /\ [][NextPath]_vars

\* The three rules, read off the characters of a string.
HasLeadingSlash(s) == Len(s) >= 1 /\ s[1] = "/"

HasDoubleSlash(s) == \E i \in 1..(Len(s) - 1) : s[i] = "/" /\ s[i + 1] = "/"

HasDotDot(s) == \E i \in 1..(Len(s) - 1) : s[i] = "." /\ s[i + 1] = "."

\* A create call has been made.
Created == spCall.op # "none"

\* ---------------------------------------------------------------------- C6

\* C6: StoragePath.create checks leading separator, doubled separator, parent
\* reference in this order and throws the error of the first rule violated
\* only; the three errors are pairwise distinct.
C6_FirstViolatedRuleDecidesError ==
    /\ ErrLeadingSlash # ErrDoubleSlash
    /\ ErrLeadingSlash # ErrParentRef
    /\ ErrDoubleSlash # ErrParentRef
    /\ Created =>
        /\ HasLeadingSlash(spRaw) => spErr = ErrLeadingSlash
        /\ ~HasLeadingSlash(spRaw) /\ HasDoubleSlash(spRaw) => spErr = ErrDoubleSlash
        /\ ~HasLeadingSlash(spRaw) /\ ~HasDoubleSlash(spRaw) /\ HasDotDot(spRaw)
              => spErr = ErrParentRef

\* An input that violates all three rules was rejected for its leading separator.
C6_Witness ==
    /\ spRaw = <<"/", "/", ".", ".">>
    /\ spErr = ErrLeadingSlash
    /\ spInst = {}

\* An input with a doubled separator and a parent reference but no leading
\* separator was rejected for the doubled separator.
C6_WitnessDoubleSlash ==
    /\ spRaw = <<".", ".", "/", "/">>
    /\ spErr = ErrDoubleSlash
    /\ spInst = {}

\* ---------------------------------------------------------------------- C7

\* C7: every StoragePath instance holds a value that does not start with "/",
\* contains no "//" and contains no ".." (the parent-directory marker);
\* create(raw) produces an instance, holding raw, exactly when raw satisfies
\* the three rules, and otherwise throws and produces none.
C7_InstancesAreValid ==
    /\ \A p \in spInst :
          ~HasLeadingSlash(p.value) /\ ~HasDoubleSlash(p.value) /\ ~HasDotDot(p.value)
    /\ Created =>
        /\ spInst # {} <=>
              (~HasLeadingSlash(spRaw) /\ ~HasDoubleSlash(spRaw) /\ ~HasDotDot(spRaw))
        /\ spInst # {} => spInst = {ValueObject(spRaw)} /\ spErr = "none"
        /\ spInst = {} <=> spErr # "none"

\* A path with a separator and a dot was accepted.
C7_Witness ==
    /\ spCall.op = "create"
    /\ spInst = {ValueObject(<<"a", "/", ".", "B">>)}
    /\ spErr = "none"

\* A path whose only fault is a parent reference was rejected, leaving no instance.
C7_WitnessRejected ==
    /\ spCall.op = "create"
    /\ spRaw = <<"a", "/", ".", ".">>
    /\ spInst = {}
    /\ spErr = ErrParentRef

\* ---------------------------------------------------------------------- C8

\* The text after the last "." of s, lower-cased; empty when s has no ".".
AfterLastDotLower(s) ==
    IF \A i \in 1..Len(s) : s[i] # "."
    THEN <<>>
    ELSE LET d == CHOOSE k \in 1..Len(s) : s[k] = "." /\ \A j \in (k + 1)..Len(s) : s[j] # "."
         IN toLowerCase(SubSeq(s, d + 1, Len(s)))

\* C8: for every valid StoragePath, extension is the lower-cased text after
\* the last "." of the value, and the empty string when the value has no ".".
C8_ExtensionAfterLastDot ==
    spCall.op = "extension" =>
        \A p \in spInst : spCall.r = AfterLastDotLower(p.value)

\* Where the code agrees with C8: on the values that contain a ".".
C8_ExtensionWhenDotPresent ==
    spCall.op = "extension" =>
        \A p \in spInst :
            (\E i \in 1..Len(p.value) : p.value[i] = ".") =>
                spCall.r = AfterLastDotLower(p.value)

\* ---------------------------------------------------------------------- C9

\* s without its trailing "/" characters.
RECURSIVE StripTrailingSlashes(_)
StripTrailingSlashes(s) ==
    IF s # <<>> /\ s[Len(s)] = "/" THEN StripTrailingSlashes(SubSeq(s, 1, Len(s) - 1)) ELSE s

\* C9: for every valid StoragePath p and every base, p.toUrl(base) is base
\* without all of its trailing "/", then one "/", then the path value.
C9_ToUrlStripsAllTrailingSlashes ==
    spCall.op = "toUrl" =>
        \A p \in spInst :
            spCall.r = StripTrailingSlashes(spCall.base) \o <<"/">> \o p.value

\* Where the code agrees with C9: on the bases that end in at most one "/".
C9_ToUrlAtMostOneTrailingSlash ==
    spCall.op = "toUrl" =>
        \A p \in spInst :
            ~(Len(spCall.base) >= 2 /\ SubSeq(spCall.base, Len(spCall.base) - 1, Len(spCall.base)) = <<"/", "/">>)
                => spCall.r = StripTrailingSlashes(spCall.base) \o <<"/">> \o p.value

\* ---------------------------------------------------------------- DomainEvent

\* The identifier source, `uuidv7()` of the uuid package, is outside the
\* repository. It is modelled as the specification describes it: an opaque
\* source of fresh, unique, time-ordered identifiers. An identifier is a
\* natural number, compared as the identifiers compare; each call issues one
\* later than every identifier issued before, by a gap that stands for the
\* time that passed.
uuidv7(last, gap) == last + gap

MaxGap == 2

\* The values `new Date()` may give.
Clock == {0, 1}

EventTypes == {"order.placed", "user.registered"}

Payloads == {"payload"}

\* A constructor that takes the identifier from the timestamp.
DomainEvent_timestampId(type, aggregateId, payload, uuid, now) ==
    [type |-> type, id |-> now, aggregateId |-> aggregateId,
     occurredAt |-> now, payload |-> payload]

\* The DomainEvent constructor: `uuid` is what uuidv7() returned and `now`
\* what new Date() returned. It has no throw and no early return.
DomainEvent(type, aggregateId, payload, uuid, now) ==
    [type |-> type, id |-> uuid, aggregateId |-> aggregateId,
     occurredAt |-> now, payload |-> payload]

MaxEvents == 3

\* new DomainEvent(type, aggregateId, payload)
Construct(type, aggregateId, payload) ==
    /\ evCalls < MaxEvents
    /\ \E gap \in 1..MaxGap, now \in Clock :
          /\ uuidLast' = uuidv7(uuidLast, gap)
          /\ evLog' = Append(evLog, DomainEvent(type, aggregateId, payload, uuidLast', now))
    /\ evCalls' = evCalls + 1

NextEvent ==
    \E type \in EventTypes, aggregateId \in AggregateIds, payload \in Payloads :
        Construct(type, aggregateId, payload) /\ UNCHANGED <<aggVars, concVars, eqVars, pathVars>>

SpecEvent == Init /\ [][NextEvent]_vars

\* ---------------------------------------------------------------------- C10

\* C10: every DomainEvent construction succeeds, and over any sequence of
\* constructions an event created before another has an identifier that
\* compares as earlier; so all identifiers are pairwise distinct.
C10_IdentifiersDistinctAndOrdered ==
    /\ Len(evLog) = evCalls
    /\ \A i, j \in 1..Len(evLog) :
          /\ i < j => evLog[i].id < evLog[j].id
          /\ i # j => evLog[i].id # evLog[j].id

\* Three events were constructed: the first two for the same aggregate, with
\* the same type and at the same clock reading, the third at an earlier
\* clock reading than the second.
C10_Witness ==
    /\ Len(evLog) = 3
    /\ evLog[1].aggregateId = evLog[2].aggregateId
    /\ evLog[1].type = evLog[2].type
    /\ evLog[1].occurredAt = evLog[2].occurredAt
    /\ evLog[3].occurredAt < evLog[2].occurredAt

\* ---------------------------------------------------------------------- C11

\* C11: pushDomainEvent appends exactly one element, the event pushed, at the
\* tail of the buffer and leaves the earlier elements and their order as they
\* were, whether or not the buffer already holds that event; so an event
\* pushed twice is returned twice by the next pull, where it was pushed.
C11_PushAppendsOneAtTail ==
    \A a \in Aggs :
        /\ lastOp[a] = "push" =>
              /\ Len(Pending(a)) = Len(before[a]) + 1
              /\ SubSeq(Pending(a), 1, Len(before[a])) = before[a]
              /\ Last(Pending(a)) = Last(pushed[a])
        /\ lastOp[a] = "pull" =>
              Last(returned[a]) = SubSeq(pushed[a], Len(pushed[a]) - Len(before[a]) + 1,
                                         Len(pushed[a]))

\* An event pushed twice, with another between, was returned twice by the
\* next pull, in the positions where it was pushed.
C11_Witness ==
    \E a \in Aggs :
        /\ pushed[a] = <<"e1", "e2", "e1">>
        /\ returned[a] = << <<"e1", "e2", "e1">> >>

\* ---------------------------------------------------------------------- C12

\* s has a path segment equal to "..": two dots with a separator or an end
\* of the string on each side.
HasDotDotSegment(s) ==
    \E i \in 1..(Len(s) - 1) :
        /\ s[i] = "." /\ s[i + 1] = "."
        /\ i = 1 \/ s[i - 1] = "/"
        /\ i + 1 = Len(s) \/ s[i + 2] = "/"

PassesFirstTwoRules(s) == ~HasLeadingSlash(s) /\ ~HasDoubleSlash(s)

\* C12, as claimed: create fails with the parent-reference error exactly when
\* the input passes the first two rules and has a segment equal to "..", and
\* an input that passes them and has no such segment is accepted.
C12_ParentErrorIffDotDotSegment ==
    Created =>
        /\ spErr = ErrParentRef <=> (PassesFirstTwoRules(spRaw) /\ HasDotDotSegment(spRaw))
        /\ PassesFirstTwoRules(spRaw) /\ ~HasDotDotSegment(spRaw) => spInst = {ValueObject(spRaw)}

\* C12, amended: create fails with the parent-reference error exactly when
\* the input passes the first two rules and contains two consecutive dots
\* anywhere, inside a name as well as in a segment equal to ".."; an input
\* that passes the first two rules and contains no two consecutive dots is
\* accepted.
C12_ParentErrorIffDotDotAnywhere ==
    Created =>
        /\ spErr = ErrParentRef <=> (PassesFirstTwoRules(spRaw) /\ HasDotDot(spRaw))
        /\ PassesFirstTwoRules(spRaw) /\ ~HasDotDot(spRaw) => spInst = {ValueObject(spRaw)}
        /\ HasDotDotSegment(spRaw) => spInst = {}

\* A name that contains two consecutive dots and is no ".." segment was
\* rejected with the parent-reference error.
C12_Witness ==
    /\ spCall.op = "create"
    /\ spRaw = <<"a", ".", ".", "B">>
    /\ ~HasDotDotSegment(spRaw)
    /\ spErr = ErrParentRef
    /\ spInst = {}

\* ---------------------------------------------------------------------- C13

\* C13: for every raw string create accepted, the instance's value equals
\* raw character for character, and so does toString(); this holds in every
\* state reached afterwards, whatever sequence of equals, toString,
\* extension and toUrl calls was made on the instance.
C13_ValueIsRawAndStaysSo ==
    \A p \in spInst :
        /\ p.value = spRaw
        /\ Len(p.value) = Len(spRaw)
        /\ spCall.op = "toString" => spCall.r = spRaw
        /\ spCall.op = "equals" => (spCall.r <=> spCall.other = spRaw)

\* toString was called on an instance whose raw string ends in a separator
\* and returned that string, separator included.
C13_Witness ==
    /\ spCall.op = "toString"
    /\ spRaw = <<"a", "/", "B", "/">>
    /\ spInst = {ValueObject(spRaw)}
    /\ spCall.r = spRaw

\* ---------------------------------------------------------------------- C14

\* C14: an array returned by pullDomainEvents is an independent snapshot. It
\* is never the array of any aggregate's buffer; later pushes and pulls leave
\* it as it was returned, apart from what its caller did to it; and what the
\* caller does to it leaves the pending buffer what the pushes and pulls made
\* it: the events pushed since the last pull.
C14_ReturnedBatchIsIndependent ==
    \A a \in Aggs :
        /\ \A k \in 1..Len(batchRefs[a]) :
              /\ heap[batchRefs[a][k]] = callerView[a][k]
              /\ \A b \in Aggs : batchRefs[a][k] # domainEvents[b]
              /\ \A b \in Aggs : \A j \in 1..Len(batchRefs[b]) :
                    <<a, k>> # <<b, j>> => batchRefs[a][k] # batchRefs[b][j]
        /\ Pending(a) = SubSeq(pushed[a], Mark(a, Len(marks[a])) + 1, Len(pushed[a]))

\* A batch was returned, an event was pushed to the aggregate afterwards and
\* the caller appended an event to the batch: the batch holds what was
\* returned and the caller's event, the buffer holds the pushed event.
C14_Witness ==
    \E a \in Aggs :
        /\ Len(batchRefs[a]) = 1
        /\ returned[a][1] = <<"e1">>
        /\ heap[batchRefs[a][1]] = <<"e1", "e2">>
        /\ Pending(a) = <<"e1">>
        /\ pushed[a] = <<"e1", "e1">>

\* ---------------------------------------------------------------------- C15

\* The aggregate a as an entity: its `_id`, and itself for its other state.
AsEntity(a) == Entity(aggId[a], a)

\* C15: a push or a pull on an aggregate a leaves unchanged the id of every
\* aggregate, the result of equals between any two aggregates, and the
\* pending buffer of every aggregate other than a, one with an equal id
\* included.
C15_PushPullFrame ==
    [][\A a \in Aggs :
          ((\E e \in Events : Push(a, e)) \/ Pull(a)) =>
              /\ aggId' = aggId
              /\ \A b \in Aggs \ {a} : Pending(b)' = Pending(b)
              /\ \A x, y \in Aggs :
                    Entity_equals(AsEntity(x), AsEntity(y))'
                        = Entity_equals(AsEntity(x), AsEntity(y))]_vars

\* Two aggregates with equal ids, which therefore compare equal, hold
\* different buffers: one was pushed to and pulled from, the other only
\* pushed to.
C15_Witness ==
    /\ aggId["a1"] = aggId["a2"]
    /\ Entity_equals(AsEntity("a1"), AsEntity("a2"))
    /\ Pending("a1") = <<"e1">>
    /\ returned["a1"] = <<>>
    /\ returned["a2"] = << <<"e2">> >>
    /\ Pending("a2") = <<>>

\* ---------------------------------------------------------------------- C16

\* The calls among three objects were made.
AmongThree == eqRes.op \in {"equals3", "Entity.equals3"}

\* The primitive that decides equals of x: the wrapped value, or for an
\* entity the value its id wraps.
Compared(x) == IF eqArgs.kind = "entity" THEN x.id.value ELSE x.value

\* equals is reflexive, symmetric and transitive over every value the
\* wrapper can hold, NaN included: x.equals(x) is true, x.equals(y) equals
\* y.equals(x), and x.equals(y) with y.equals(z) implies x.equals(z).
C16_EqualsIsEquivalence ==
    AmongThree =>
        /\ eqRes.xx
        /\ eqRes.xy = eqRes.yx
        /\ (eqRes.xy /\ eqRes.yz) => eqRes.xz

\* C16: equals on primitive value objects, and so on identifiers and on
\* entities, is symmetric and transitive over every value the wrapper can
\* hold, and x.equals(x) is true for every value except NaN: an object
\* wrapping NaN, or an entity whose id wraps NaN, is not equal to itself.
C16_EqualsSymmetricTransitiveReflexiveButNaN ==
    AmongThree =>
        /\ eqRes.xx <=> Compared(eqArgs.a) # NaN
        /\ eqRes.xy = eqRes.yx
        /\ (eqRes.xy /\ eqRes.yz) => eqRes.xz

\* A value object wrapping NaN compared unequal to itself, and to another
\* object wrapping NaN, both ways.
C16_Witness ==
    /\ eqRes.op = "equals3"
    /\ eqArgs.a.value = NaN
    /\ eqArgs.b.value = NaN
    /\ eqRes.xx = FALSE
    /\ eqRes.xy = FALSE
    /\ eqRes.yx = FALSE

\* Three entities with the same string id and not all the same name
\* compared equal in every one of the five calls.
C16_WitnessEntitiesChain ==
    /\ eqRes.op = "Entity.equals3"
    /\ eqArgs.a.name # eqRes.z.name
    /\ eqRes.xx /\ eqRes.xy /\ eqRes.yx /\ eqRes.yz /\ eqRes.xz

====
